---- MODULE Spec2Model ----
(***************************************************************************)
(* State-machine model of the slide editor front end:                      *)
(*   App          (frontend/src/App.tsx)      trace list, selection, save  *)
(*   SlideEditor  (SlideEditor.tsx)           editing session              *)
(* React state is modelled as variables; an object that the code mutates   *)
(* in place (the slides array of a trace's presentation) lives in `store`, *)
(* and every reference to it is the name of the trace that owns it.        *)
(***************************************************************************)
EXTENDS Integers, Sequences, FiniteSets, TLC

\* ------------------------------------------------------------------ bounds
\* number of calls of handleShapeChange
MaxEdits == 2
\* number of save requests ever sent
MaxSaves == 2
\* number of chat messages ever sent
MaxChat == 2

\* --------------------------------------------------------------- test data
\* The trace list returned by GET /api/traces: two traces, each with an
\* editable presentation.
Traces == <<"T1", "T2">>

TextShape(id, x, y, w, h, t) ==
    [id |-> id, type |-> "text", x |-> x, y |-> y, width |-> w, height |-> h, text |-> t]

RectShape(id, x, y, w, h) ==
    [id |-> id, type |-> "rect", x |-> x, y |-> y, width |-> w, height |-> h]

Slide(id, index, shapes) ==
    [id |-> id, index |-> index, shapes |-> shapes]

\* TraceSlide.presentation of each trace as the backend provides it
Original ==
    [t \in {"T1", "T2"} |->
        IF t = "T1"
        THEN [width |-> 960, height |-> 540,
              slides |-> << Slide("a", 0, << TextShape("s1", 100, 100, 200, 50, "Q1"),
                                             RectShape("s2", 50, 50, 100, 4) >>),
                            Slide("b", 1, << TextShape("s1", 50, 50, 200, 50, "Q1") >>) >>]
        ELSE [width |-> 720, height |-> 405,
              slides |-> << Slide("c", 0, << RectShape("s1", 50, 50, 100, 100) >>) >>]]

\* traces whose `presentation` field is present
Editable == DOMAIN Original

ShapeIds == {"s1", "s2"}

\* Partial<ShapeData> values the shape components emit:
\*   text patch (blur of the edit surface), drag patch, resize patch
TextPatches == {[text |-> "Q2"]}
DragPatches == {[x |-> 80, y |-> 120]}
ResizePatches == {[x |-> 100, y |-> 100, width |-> 20, height |-> 20]}
Patches == TextPatches \cup DragPatches \cup ResizePatches

\* outcomes of POST /api/save-presentation
Outcomes == {"ok", "ok_no_artifact", "http_error", "transport_error"}

VARIABLES
    \* ---- App
    loading,            \* App.loading: a fetchTraces call is in flight
    error,              \* App.error # null
    selectedTrace,      \* App.selectedTrace ("none" = null)
    store,              \* store[t]: slides array of traces[t].presentation
    \* ---- SlideEditor (of the mounted instance; defaults when unmounted)
    currentSlideIndex,
    selectedShapeId,    \* "null" = null
    localPresentation,  \* reference: the trace whose slides array it shares
    hasChanges,
    saving,
    view,               \* what the last render captured / put on screen
    konva,              \* the Konva node a pointer gesture is manipulating
    surfaces,           \* text-edit surfaces (textareas) in document.body
    \* ---- persistence collaborator
    requests,           \* save requests in transit
    sent,               \* number of save requests sent so far
    userSaw,            \* what the step just taken showed the user about a save
    patchResult,        \* whether the step just taken applied or ignored a patch
    \* ---- history (observation only)
    baseline,           \* << presentation last loaded or successfully saved >>
    folded,             \* folded[t]: left fold of the patches applied to each shape
    edits,              \* number of handleShapeChange calls so far
    \* ---- the slide viewer: App of part_000 and its SlidePdfViewer
    pdfApp,             \* App's loading, error and selectedTrace
    pdf,                \* the SlidePdfViewer instance and its Document
    \* ---- the chat playground
    chat                \* the ChatPlayground instance and its requests in flight

annotationVars ==
    << loading, error, selectedTrace, store, currentSlideIndex, selectedShapeId,
       localPresentation, hasChanges, saving, view, requests, sent, userSaw,
       patchResult,
       baseline, folded, edits, konva, surfaces >>

pdfVars == << pdfApp, pdf >>

vars == << annotationVars, pdfVars, chat >>

appVars == << loading, error, selectedTrace >>
editorVars == << currentSlideIndex, selectedShapeId, localPresentation, hasChanges, saving >>
gestureVars == << konva, surfaces >>

\* the traces the slide viewer lists: has_pdf, and doc.numPages of the PDF
\* behind the trace's URL
PdfTraces == << "P1", "P2", "P3" >>

PdfTrace ==
    [P1 |-> [has_pdf |-> TRUE, numPages |-> 3],
     P2 |-> [has_pdf |-> TRUE, numPages |-> 2],
     P3 |-> [has_pdf |-> FALSE, numPages |-> 0]]

\* the traces the chat playground is opened for, and their names
ChatTraces == {"A", "B"}

traceNameOf == [A |-> "Deck A", B |-> "Deck B"]

\* what the user types into the chat input
ChatInputs == {"", " ", "hi", "redo"}

\* how a request to /api/chat ends
ChatOutcomes == {"ok", "http_error", "transport_error"}

\* keys a keydown event reports
Keys == {"ArrowLeft", "ArrowUp", "ArrowRight", "ArrowDown", "Enter"}

\* ---------------------------------------------------------------- helpers
\* useState initial values of App (part_000)
InitialApp == [loading |-> TRUE, error |-> FALSE, selectedTrace |-> "none"]

\* no ChatPlayground is mounted
NoChat ==
    [mounted |-> FALSE, traceId |-> "none", messages |-> << >>, input |-> "",
     loading |-> FALSE, requests |-> {}, sent |-> 0]

\* no SlidePdfViewer is mounted
NoViewer ==
    [mounted |-> FALSE, pdfUrl |-> << >>, numPages |-> 0, currentPage |-> 1,
     rendered |-> 0, document |-> "none", event |-> "none", before |-> 1]

\* the PresentationData value a reference denotes in heap h
DerefIn(h, p) ==
    [width |-> Original[p].width, height |-> Original[p].height, slides |-> h[p]]

Deref(p) == DerefIn(store, p)

\* SlideEditor is rendered by App: main view and selectedTrace.presentation
MountedIn(l, e, t) == ~l /\ ~e /\ t \in Editable

Mounted == MountedIn(loading, error, selectedTrace)

\* const containerWidth = 900
containerWidth == 900

NoView ==
    [pres |-> "none", slide |-> 0, slides |-> << >>, scale |-> 0, displayHeight |-> 0]

\* const scale = containerWidth / localPresentation.width, in 1/10000; the
\* widths of Original divide containerWidth * 10000
ScaleOf(width) == (containerWidth * 10000) \div width

\* const displayHeight = localPresentation.height * scale
DisplayHeightOf(height, scale) == height * scale

\* the closure values and shape props of a render in the given state
ViewOf(h, p, i) ==
    [pres |-> p, slide |-> i, slides |-> h[p],
     scale |-> ScaleOf(Original[p].width),
     displayHeight |-> DisplayHeightOf(Original[p].height, ScaleOf(Original[p].width))]

Rendered == view = ViewOf(store, localPresentation, currentSlideIndex)

\* const currentSlide = localPresentation.slides[currentSlideIndex]
HasCurrentSlide ==
    /\ Mounted
    /\ currentSlideIndex >= 0
    /\ currentSlideIndex < Len(store[localPresentation])

\* the editor's controls exist and show the current state
Interactive == HasCurrentSlide /\ Rendered

RECURSIVE FindFrom(_, _, _)
FindFrom(shapes, shapeId, k) ==
    IF k > Len(shapes) THEN -1
    ELSE IF shapes[k].id = shapeId THEN k - 1
    ELSE FindFrom(shapes, shapeId, k + 1)

\* an index that is never negative: the first shape when none matches
FindIndexOrFirst(shapes, shapeId) ==
    IF FindFrom(shapes, shapeId, 1) < 0 /\ Len(shapes) > 0
    THEN 0
    ELSE FindFrom(shapes, shapeId, 1)

\* Array.prototype.findIndex(s => s.id === shapeId): 0-based, -1 if absent
FindIndex(shapes, shapeId) == FindFrom(shapes, shapeId, 1)

\* the patch alone, without the attributes it does not name
PatchOnly(old, newAttrs) == newAttrs

\* object spread { ...old, ...newAttrs }
Merge(old, newAttrs) ==
    [k \in (DOMAIN old) \cup (DOMAIN newAttrs) |->
        IF k \in DOMAIN newAttrs THEN newAttrs[k] ELSE old[k]]

\* JSON.stringify({ presentation }): a deep copy by value
JSONstringify(p) == [presentation |-> p]

\* no pointer gesture: node scale is Konva's default 1 (in percent)
IdleNode == [phase |-> "idle", id |-> "null", x |-> 0, y |-> 0,
             scaleX |-> 100, scaleY |-> 100]

\* handleDblClick has appended its textarea and not yet focused it
InHandler == \E s \in surfaces : ~s.attached

\* no pointer is held down on a shape or on a transformer handle
PointerFree == konva.phase = "idle"

\* a new user event (click, tap, key) can be dispatched
UIReady == ~InHandler /\ PointerFree

\* ------------------------------------------------------------------- Init
\* App has just been constructed: loading, no traces, fetchTraces in flight
Init ==
    /\ loading = TRUE
    /\ error = FALSE
    /\ selectedTrace = "none"
    /\ store = [t \in Editable |-> Original[t].slides]
    /\ currentSlideIndex = 0
    /\ selectedShapeId = "null"
    /\ localPresentation = "none"
    /\ hasChanges = FALSE
    /\ saving = FALSE
    /\ view = NoView
    /\ requests = {}
    /\ sent = 0
    /\ userSaw = "none"
    /\ patchResult = "none"
    /\ baseline = << >>
    /\ folded = [t \in Editable |-> Original[t].slides]
    /\ edits = 0
    /\ konva = IdleNode
    /\ surfaces = {}
    /\ pdfApp = InitialApp
    /\ pdf = NoViewer
    /\ chat = NoChat

\* a textarea lives in document.body, outside React, and keeps the onChange
\* of the render that created it. owner tells what that handler still reaches:
\*   "mounted"   its SlideEditor instance and the trace list's objects
\*   "unmounted" the trace list's objects only (the instance is gone)
\*   "replaced"  neither (setTraces has replaced the trace list)
Disowned(owner) == IF owner = "mounted" THEN "unmounted" ELSE owner

\* ------------------------------------------------- mounting / unmounting
\* useState initial values of a fresh SlideEditor for presentation p in
\* heap h, followed by its first effect run
MountEditor(h, p) ==
    /\ currentSlideIndex' = 0
    /\ selectedShapeId' = "null"
    /\ localPresentation' = p
    /\ hasChanges' = FALSE
    /\ saving' = FALSE
    /\ view' = ViewOf(h, p, 0)
    /\ baseline' = << DerefIn(h, p) >>

\* the instance is discarded; continuations of its saves still run, but
\* their state setters no longer reach a mounted component
UnmountEditor ==
    /\ currentSlideIndex' = 0
    /\ selectedShapeId' = "null"
    /\ localPresentation' = "none"
    /\ hasChanges' = FALSE
    /\ saving' = FALSE
    /\ view' = NoView
    /\ baseline' = << >>
    /\ requests' = {[r EXCEPT !.alive = FALSE] : r \in requests}
    /\ surfaces' = {[s EXCEPT !.owner = Disowned(@)] : s \in surfaces}

\* ------------------------------------------------------------ App actions
\* fetchTraces resolves with the trace list: setTraces, setSelectedTrace of
\* the first trace, setLoading(false). `error` is not cleared, so after an
\* earlier failure the error view stays.
FetchTracesOk ==
    /\ ~InHandler
    /\ loading
    /\ loading' = FALSE
    /\ selectedTrace' = Traces[1]
    /\ store' = [t \in Editable |-> Original[t].slides]
    /\ folded' = store'
    /\ IF MountedIn(FALSE, error, Traces[1])
       THEN MountEditor(store', Traces[1])
       ELSE UNCHANGED << editorVars, view, baseline >>
    /\ userSaw' = "none"
    /\ UNCHANGED << pdfVars, chat >>
    /\ patchResult' = "none"
    /\ surfaces' = {[s EXCEPT !.owner = "replaced"] : s \in surfaces}
    /\ UNCHANGED << error, requests, sent, edits, konva >>

\* fetchTraces fails (non-ok status or transport error): setError
FetchTracesFail ==
    /\ ~InHandler
    /\ loading
    /\ loading' = FALSE
    /\ error' = TRUE
    /\ userSaw' = "none"
    /\ UNCHANGED << pdfVars, chat >>
    /\ patchResult' = "none"
    /\ UNCHANGED << selectedTrace, store, editorVars, view, requests, sent, baseline, folded, edits, gestureVars >>

\* the Refresh button of the main view: fetchTraces sets loading, App renders
\* the loading view and the editor is unmounted
Refresh ==
    /\ UIReady
    /\ ~loading /\ ~error
    /\ Mounted => Rendered
    /\ loading' = TRUE
    /\ UnmountEditor
    /\ userSaw' = "none"
    /\ UNCHANGED << pdfVars, chat >>
    /\ patchResult' = "none"
    /\ UNCHANGED << error, selectedTrace, store, sent, folded, edits, konva >>

\* the Retry button of the error view
Retry ==
    /\ UIReady
    /\ ~loading /\ error
    /\ loading' = TRUE
    /\ userSaw' = "none"
    /\ UNCHANGED << pdfVars, chat >>
    /\ patchResult' = "none"
    /\ UNCHANGED << error, selectedTrace, store, editorVars, view, requests, sent,
                    baseline, folded, edits, gestureVars >>

\* click on a trace of the sidebar: setSelectedTrace(trace). The editor is
\* kept when both traces have a presentation (its effect on [presentation]
\* then runs), mounted when only the new one has, unmounted otherwise.
SelectTrace(t) ==
    /\ UIReady
    /\ ~loading /\ ~error
    /\ Mounted => Rendered
    /\ t # selectedTrace
    /\ selectedTrace' = t
    /\ IF Mounted /\ t \in Editable
       THEN /\ localPresentation' = t
            /\ hasChanges' = FALSE
            /\ view' = ViewOf(store, t, currentSlideIndex)
            /\ baseline' = << Deref(t) >>
            /\ UNCHANGED << currentSlideIndex, selectedShapeId, saving, requests >>
            /\ UNCHANGED surfaces
       ELSE IF t \in Editable
       THEN /\ MountEditor(store, t)
            /\ UNCHANGED << requests, surfaces >>
       ELSE UnmountEditor
    /\ userSaw' = "none"
    /\ UNCHANGED << pdfVars, chat >>
    /\ patchResult' = "none"
    /\ UNCHANGED << loading, error, store, sent, folded, edits, konva >>

\* ---------------------------------------------------- SlideEditor actions
\* React re-renders the editor after a state update
Render ==
    /\ ~InHandler
    /\ Mounted
    /\ ~Rendered
    /\ view' = ViewOf(store, localPresentation, currentSlideIndex)
    /\ userSaw' = "none"
    /\ UNCHANGED << pdfVars, chat >>
    /\ patchResult' = "none"
    /\ UNCHANGED << appVars, store, editorVars, requests, sent, baseline, folded, edits, gestureVars >>

\* if (shapeIndex >= 0)
Found(shapeIndex) == shapeIndex >= 0

\* the shapes array as the last render showed it
RenderedShapes(c) == c.slides[c.slide + 1].shapes

\* newPresentation.slides[slideIndex].shapes for the handler of render c: the
\* spread copies the top level only, so this is the one shapes array of the
\* presentation, with every assignment made to it so far
SharedShapes(c) == store[c.pres][c.slide + 1].shapes

\* the shapes array after
\*   shapes[shapeIndex] = { ...shapes[shapeIndex], ...newAttrs }
PatchShapes(shapes, shapeIndex, newAttrs) ==
    [shapes EXCEPT ![shapeIndex + 1] = Merge(@, newAttrs)]

\* the patches tried on shape `shapeId`: a text edit and a drag on a text
\* shape (and on an id that is not on the slide), a drag and a resize on a
\* rectangle
PatchesFor(shapes, shapeId) ==
    LET k == FindIndex(shapes, shapeId)
    IN  IF k >= 0 /\ shapes[k + 1].type = "rect"
        THEN DragPatches \cup ResizePatches
        ELSE TextPatches \cup DragPatches

\* One step of the left fold of patches over a shape's attributes: an
\* attribute named by the patch takes the patch's value, any other attribute
\* keeps the value folded so far.
FoldStep(attrs, patch) ==
    [k \in (DOMAIN attrs) \cup (DOMAIN patch) |->
        IF k \in DOMAIN patch THEN patch[k] ELSE attrs[k]]

\* the fold step applied to the shape called shapeId of a slide
FoldInto(slide, shapeId, patch) ==
    [slide EXCEPT !.shapes =
        [k \in 1 .. Len(slide.shapes) |->
            IF slide.shapes[k].id = shapeId
            THEN FoldStep(slide.shapes[k], patch)
            ELSE slide.shapes[k]]]

\* newPresentation.slides[slideIndex] is an object, not undefined
HasSlide(c) == c.slide >= 0 /\ c.slide < Len(store[c.pres])

\* handleShapeChange(shapeId, newAttrs) of the render c (its localPresentation
\* and currentSlideIndex are c.pres and c.slide). The assignment into the
\* shared shapes array happens whoever calls; the two setState calls reach
\* only a mounted instance. With no slide at the index, reading `.shapes` of
\* undefined throws a TypeError out of the handler before anything is assigned.
HandleShapeChange(c, owner, shapeId, newAttrs) ==
    /\ edits' = edits + 1
    /\ IF owner = "replaced"
       THEN /\ UNCHANGED << store, localPresentation, hasChanges, folded >>
            /\ patchResult' = "ignored"
       ELSE IF ~HasSlide(c)
       THEN /\ UNCHANGED << store, localPresentation, hasChanges, folded >>
            /\ patchResult' = "threw"
       ELSE LET shapes == SharedShapes(c)
                shapeIndex == FindIndex(shapes, shapeId)
            IN  /\ IF Found(shapeIndex)
                   THEN /\ store' = [store EXCEPT ![c.pres][c.slide + 1].shapes =
                                         PatchShapes(shapes, shapeIndex, newAttrs)]
                        /\ IF owner = "mounted"
                           THEN /\ localPresentation' = c.pres
                                /\ hasChanges' = TRUE
                           ELSE UNCHANGED << localPresentation, hasChanges >>
                        /\ patchResult' = "applied"
                   ELSE /\ UNCHANGED << store, localPresentation, hasChanges >>
                        /\ patchResult' = "ignored"
                /\ folded' = IF \E k \in 1 .. Len(folded[c.pres][c.slide + 1].shapes) :
                                     folded[c.pres][c.slide + 1].shapes[k].id = shapeId
                             THEN [folded EXCEPT ![c.pres][c.slide + 1] =
                                         FoldInto(@, shapeId, newAttrs)]
                             ELSE folded

\* every open textarea still has its commit to make
CanEdit == edits + Cardinality(surfaces) < MaxEdits

\* a call of the handleShapeChange the last render created
ShapeChange(shapeId, newAttrs) ==
    /\ UIReady
    /\ Mounted
    /\ view.pres \in Editable
    /\ CanEdit
    /\ newAttrs \in PatchesFor(IF HasSlide(view) THEN SharedShapes(view) ELSE << >>,
                               shapeId)
    /\ HandleShapeChange(view, "mounted", shapeId, newAttrs)
    /\ userSaw' = "none"
    /\ UNCHANGED << pdfVars, chat >>
    /\ UNCHANGED << appVars, currentSlideIndex, selectedShapeId, saving, view,
                    requests, sent, baseline, gestureVars >>

\* Prev button: disabled={currentSlideIndex === 0}, setCurrentSlideIndex(i => i - 1)
Prev ==
    /\ UIReady
    /\ Interactive
    /\ currentSlideIndex # 0
    /\ currentSlideIndex' = currentSlideIndex - 1
    /\ view' = ViewOf(store, localPresentation, currentSlideIndex')
    /\ userSaw' = "none"
    /\ UNCHANGED << pdfVars, chat >>
    /\ patchResult' = "none"
    /\ UNCHANGED << appVars, store, selectedShapeId, localPresentation, hasChanges,
                    saving, requests, sent, baseline, folded, edits, gestureVars >>

\* Next button: disabled={currentSlideIndex === slides.length - 1}
NextSlide ==
    /\ UIReady
    /\ Interactive
    /\ currentSlideIndex # Len(store[localPresentation]) - 1
    /\ currentSlideIndex' = currentSlideIndex + 1
    /\ view' = ViewOf(store, localPresentation, currentSlideIndex')
    /\ userSaw' = "none"
    /\ UNCHANGED << pdfVars, chat >>
    /\ patchResult' = "none"
    /\ UNCHANGED << appVars, store, selectedShapeId, localPresentation, hasChanges,
                    saving, requests, sent, baseline, folded, edits, gestureVars >>

\* click on the thumbnail of slide `index`
Thumbnail(index) ==
    /\ UIReady
    /\ Interactive
    /\ index \in 0 .. (Len(store[localPresentation]) - 1)
    /\ currentSlideIndex' = index
    /\ selectedShapeId' = "null"
    /\ view' = ViewOf(store, localPresentation, index)
    /\ userSaw' = "none"
    /\ UNCHANGED << pdfVars, chat >>
    /\ patchResult' = "none"
    /\ UNCHANGED << appVars, store, localPresentation, hasChanges, saving, requests,
                    sent, baseline, folded, edits, gestureVars >>

\* every click counts as a click on the empty canvas
ClickedAnywhere(target) == TRUE

\* const clickedOnEmpty = e.target === e.target.getStage()
ClickedOnEmpty(target) == target = "stage"

\* handleStageClick for a click whose target is the stage or a shape, with
\* sel the selection the handlers before it have set
HandleStageClick(target, sel) == IF ClickedOnEmpty(target) THEN "null" ELSE sel

\* click / tap on a shape of the displayed slide: onSelect; the click then
\* bubbles to the Stage's onClick with the shape as its target
SelectShape(shapeId) ==
    /\ UIReady
    /\ Interactive
    /\ FindIndex(view.slides[view.slide + 1].shapes, shapeId) >= 0
    /\ selectedShapeId' = HandleStageClick(shapeId, shapeId)
    /\ userSaw' = "none"
    /\ UNCHANGED << pdfVars, chat >>
    /\ patchResult' = "none"
    /\ UNCHANGED << appVars, store, currentSlideIndex, localPresentation, hasChanges,
                    saving, view, requests, sent, baseline, folded, edits, gestureVars >>

\* handleStageClick with e.target === stage: click on the empty canvas
StageClick ==
    /\ UIReady
    /\ Interactive
    /\ selectedShapeId' = HandleStageClick("stage", selectedShapeId)
    /\ userSaw' = "none"
    /\ UNCHANGED << pdfVars, chat >>
    /\ patchResult' = "none"
    /\ UNCHANGED << appVars, store, currentSlideIndex, localPresentation, hasChanges,
                    saving, view, requests, sent, baseline, folded, edits, gestureVars >>

\* ---------------------------------------------------------------- gestures
\* Math.max(20, ...) of onTransformEnd and the 20 of boundBoxFunc
MinSize == 20

\* pointer positions a drag passes through, in the coordinates of the node
DragPositions == {[x |-> 65, y |-> 85], [x |-> 80, y |-> 120]}

\* node scales (percent) a transformer handle can ask for
ScaleFactors == {[x |-> 5, y |-> 5], [x |-> 16, y |-> 16], [x |-> 50, y |-> 50]}

\* contents typed into a textarea
TextValues == {"Q1", "Q2"}

\* currentSlide.shapes as mapped to shape components by the last render
ShapesOnStage == view.slides[view.slide + 1].shapes

OnStage(shapeId) == FindIndex(ShapesOnStage, shapeId) >= 0

\* the shapeData prop of the component with key shapeId
ShapeData(shapeId) == ShapesOnStage[FindIndex(ShapesOnStage, shapeId) + 1]

\* a pointer can go down on a shape or handle of the stage
CanGesture == UIReady /\ Interactive /\ CanEdit

\* pointer down on a draggable shape and a first move: Konva starts the drag
\* and moves the node with the pointer
DragStart(shapeId, pos) ==
    /\ CanGesture
    /\ OnStage(shapeId)
    /\ << pos.x, pos.y >> # << ShapeData(shapeId).x, ShapeData(shapeId).y >>
    /\ konva' = [konva EXCEPT !.phase = "dragging", !.id = shapeId,
                               !.x = pos.x, !.y = pos.y]
    /\ userSaw' = "none"
    /\ UNCHANGED << pdfVars, chat >>
    /\ patchResult' = "none"
    /\ UNCHANGED << appVars, store, editorVars, view, surfaces, requests, sent,
                    baseline, folded, edits >>

\* a further pointer move of the drag: no onDragMove handler is registered
DragMove(pos) ==
    /\ ~InHandler
    /\ konva.phase = "dragging"
    /\ << pos.x, pos.y >> # << konva.x, konva.y >>
    /\ konva' = [konva EXCEPT !.x = pos.x, !.y = pos.y]
    /\ userSaw' = "none"
    /\ UNCHANGED << pdfVars, chat >>
    /\ patchResult' = "none"
    /\ UNCHANGED << appVars, store, editorVars, view, surfaces, requests, sent,
                    baseline, folded, edits >>

\* the position the shape had when the drag began
DragStartPatch(node) == [x |-> ShapeData(node.id).x, y |-> ShapeData(node.id).y]

\* { x: e.target.x(), y: e.target.y() }
DragEndPatch(node) == [x |-> node.x, y |-> node.y]

\* pointer up: onDragEnd
DragEnd ==
    /\ ~InHandler
    /\ konva.phase = "dragging"
    /\ HandleShapeChange(view, "mounted", konva.id, DragEndPatch(konva))
    /\ konva' = [IdleNode EXCEPT !.scaleX = konva.scaleX, !.scaleY = konva.scaleY]
    /\ userSaw' = "none"
    /\ UNCHANGED << pdfVars, chat >>
    /\ UNCHANGED << appVars, currentSlideIndex, selectedShapeId, saving, view,
                    surfaces, requests, sent, baseline >>

\* Size on screen of a node of logical size v at node scale s (percent) on a
\* stage scaled by containerWidth / presentation.width, in units of
\* 1 / (100 * presentation.width) pixel, which keeps the computation in integers
Absolute(v, s) == v * s * containerWidth

\* n pixels in the same unit, for presentation p
Pixels(n, p) == n * 100 * Original[p].width

\* the transformer's box (absolute coordinates) for the node at scale sc
BoxOf(shape, sc) ==
    [scale |-> sc,
     width |-> Absolute(shape.width, sc.x),
     height |-> Absolute(shape.height, sc.y)]

\* boundBoxFunc={(oldBox, newBox) => ...}
BoundBoxFunc(oldBox, newBox, p) ==
    IF newBox.width < Pixels(MinSize, p) \/ newBox.height < Pixels(MinSize, p)
    THEN oldBox
    ELSE newBox

\* pointer down on a handle of the Transformer, which is rendered for the
\* selected shape only
TransformStart(shapeId) ==
    /\ CanGesture
    /\ OnStage(shapeId)
    /\ selectedShapeId = shapeId
    /\ konva' = [konva EXCEPT !.phase = "transforming", !.id = shapeId,
                               !.x = ShapeData(shapeId).x, !.y = ShapeData(shapeId).y]
    /\ userSaw' = "none"
    /\ UNCHANGED << pdfVars, chat >>
    /\ patchResult' = "none"
    /\ UNCHANGED << appVars, store, editorVars, view, surfaces, requests, sent,
                    baseline, folded, edits >>

\* a pointer move with the handle: the Transformer proposes the box of node
\* scale sc and gives the node the box boundBoxFunc returns
Transform(sc) ==
    /\ ~InHandler
    /\ konva.phase = "transforming"
    /\ LET shape == ShapeData(konva.id)
           oldBox == BoxOf(shape, [x |-> konva.scaleX, y |-> konva.scaleY])
           box == BoundBoxFunc(oldBox, BoxOf(shape, sc), view.pres)
       IN  konva' = [konva EXCEPT !.scaleX = box.scale.x, !.scaleY = box.scale.y]
    /\ userSaw' = "none"
    /\ UNCHANGED << pdfVars, chat >>
    /\ patchResult' = "none"
    /\ UNCHANGED << appVars, store, editorVars, view, surfaces, requests, sent,
                    baseline, folded, edits >>

\* Math.max(a, b)
MathMax(a, b) == IF a >= b THEN a ELSE b

\* v * s for a scale s given in percent. The scales of ScaleFactors give whole
\* numbers, or values below MinSize whose fraction Math.max discards.
Times(v, s) == (v * s) \div 100

\* the node scale left as the gesture made it
KeptScale(sc) == sc

\* node.scaleX(1); node.scaleY(1)
ResetScale(sc) == 100

\* Math.max(20, node.width() * scaleX)
Baked(v, s) == MathMax(MinSize, Times(v, s))

\* the patch of onTransformEnd; node.width() and node.height() are the
\* width and height props of the last render
TransformEndPatch(node) ==
    [x |-> node.x, y |-> node.y,
     width |-> Baked(ShapeData(node.id).width, node.scaleX),
     height |-> Baked(ShapeData(node.id).height, node.scaleY)]

\* pointer up: onTransformEnd
TransformEnd ==
    /\ ~InHandler
    /\ konva.phase = "transforming"
    /\ HandleShapeChange(view, "mounted", konva.id, TransformEndPatch(konva))
    /\ konva' = [IdleNode EXCEPT !.scaleX = ResetScale(konva.scaleX),
                                  !.scaleY = ResetScale(konva.scaleY)]
    /\ userSaw' = "none"
    /\ UNCHANGED << pdfVars, chat >>
    /\ UNCHANGED << appVars, currentSlideIndex, selectedShapeId, saving, view,
                    surfaces, requests, sent, baseline >>

\* ------------------------------------------------------------- text edit
\* handleDblClick up to textarea.value = shapeData.text: a textarea is
\* appended to document.body. Nothing looks for one that is already there.
DblClickOpen(shapeId) ==
    /\ CanGesture
    /\ OnStage(shapeId)
    /\ ShapeData(shapeId).type = "text"
    /\ surfaces' = surfaces \cup
          {[shapeId |-> shapeId, closure |-> view, value |-> ShapeData(shapeId).text,
            attached |-> FALSE, owner |-> "mounted"]}
    /\ userSaw' = "none"
    /\ UNCHANGED << pdfVars, chat >>
    /\ patchResult' = "none"
    /\ UNCHANGED << appVars, store, editorVars, view, konva, requests, sent,
                    baseline, folded, edits >>

\* handleBlur of textarea s: onChange({ text: textarea.value })
HandleBlur(s) ==
    HandleShapeChange(s.closure, s.owner, s.shapeId, [text |-> s.value])

\* the rest of handleDblClick: textarea.focus() takes the focus from the
\* textarea that had it, whose blur listener runs; then the listeners of the
\* new textarea are added
DblClickFocus ==
    /\ \E s \in surfaces :
          /\ ~s.attached
          /\ surfaces' = {[s EXCEPT !.attached = TRUE]}
          /\ IF surfaces = {s}
             THEN /\ UNCHANGED << store, localPresentation, hasChanges, folded, edits >>
                  /\ patchResult' = "none"
             ELSE \E o \in surfaces \ {s} : HandleBlur(o)
    /\ userSaw' = "none"
    /\ UNCHANGED << pdfVars, chat >>
    /\ UNCHANGED << appVars, currentSlideIndex, selectedShapeId, saving, view,
                    konva, requests, sent, baseline >>

\* typing replaces the content of the focused textarea
Type(v) ==
    /\ UIReady
    /\ \E s \in surfaces :
          /\ v # s.value
          /\ surfaces' = (surfaces \ {s}) \cup {[s EXCEPT !.value = v]}
    /\ userSaw' = "none"
    /\ UNCHANGED << pdfVars, chat >>
    /\ patchResult' = "none"
    /\ UNCHANGED << appVars, store, editorVars, view, konva, requests, sent,
                    baseline, folded, edits >>

\* the focus leaves textarea s: handleBlur commits and removes it
BlurSurface(s) ==
    /\ UIReady
    /\ s \in surfaces
    /\ HandleBlur(s)
    /\ surfaces' = surfaces \ {s}
    /\ userSaw' = "none"
    /\ UNCHANGED << pdfVars, chat >>
    /\ UNCHANGED << appVars, currentSlideIndex, selectedShapeId, saving, view,
                    konva, requests, sent, baseline >>

Blur == \E s \in surfaces : BlurSurface(s)

\* keydown in the textarea that has the focus with e.key = 'Escape':
\* textarea.blur() dispatches the blur event, whose listener is handleBlur
Escape == \E s \in surfaces : s.attached /\ BlurSurface(s)

\* -------------------------------------------------------------------- save
\* a body that is read from the presentation object when the request is used
BodyByReference(r) == JSONstringify(Deref(r.pres))

\* the body the persistence collaborator receives for request r: the string
\* JSON.stringify built when fetch was called
RequestBody(r) == r.body

\* Save button (disabled={!hasChanges || saving}): handleSave up to its await;
\* handleSavePresentation serialises the presentation and starts the fetch
SaveStart ==
    /\ UIReady
    /\ Interactive
    /\ hasChanges /\ ~saving
    /\ sent < MaxSaves
    /\ saving' = TRUE
    /\ sent' = sent + 1
    /\ requests' = requests \cup
          {[id |-> sent + 1, pres |-> view.pres, alive |-> TRUE,
            body |-> JSONstringify(Deref(view.pres))]}
    /\ userSaw' = "none"
    /\ UNCHANGED << pdfVars, chat >>
    /\ patchResult' = "none"
    /\ UNCHANGED << appVars, store, currentSlideIndex, selectedShapeId,
                    localPresentation, hasChanges, view, baseline, folded, edits, gestureVars >>

\* a handler whose catch block only logs
ShownOnSuccess(outcome) == IF outcome = "ok" THEN "download" ELSE "nothing"

\* what handleSavePresentation shows for an outcome of the request
Shown(outcome) ==
    CASE outcome = "ok" -> "download"
      [] outcome = "ok_no_artifact" -> "nothing"
      [] OTHER -> "alert"

\* setSaving(false) placed after the await, where a handled failure skips it
SavingUnlessFailed(outcome) == Shown(outcome) = "alert"

\* finally { setSaving(false) }
SavingAfter(outcome) == FALSE

\* the request of r ends with `outcome`. handleSavePresentation catches every
\* failure, so `await onSave(...)` completes normally and handleSave goes on
\* with setHasChanges(false) and setSaving(false); these reach the editor
\* only if the instance that started the save is still mounted.
SaveResolve(r, outcome) ==
    /\ ~InHandler
    /\ r \in requests
    /\ requests' = requests \ {r}
    /\ userSaw' = Shown(outcome)
    /\ UNCHANGED << pdfVars, chat >>
    /\ patchResult' = "none"
    /\ IF r.alive
       THEN /\ hasChanges' = FALSE
            /\ saving' = SavingAfter(outcome)
            /\ baseline' = IF outcome = "ok"
                           THEN << RequestBody(r).presentation >>
                           ELSE baseline
       ELSE UNCHANGED << hasChanges, saving, baseline >>
    /\ UNCHANGED << appVars, store, currentSlideIndex, selectedShapeId,
                    localPresentation, view, sent, folded, edits, gestureVars >>

\* ------------------------------------------------------------ slide viewer
\* pdfUrl={`/api/traces/${selectedTrace.trace_id}/slides.pdf`}
PdfUrlOf(t) == << "/api/traces/", t, "/slides.pdf" >>

\* the trace id in a URL of that form
TraceOfUrl(url) == url[2]

\* App renders its main view, and in it SlidePdfViewer for a trace with a PDF
ViewerShown(a) ==
    /\ ~a.loading
    /\ ~a.error
    /\ a.selectedTrace # "none"
    /\ PdfTrace[a.selectedTrace].has_pdf

\* useState initial values of a fresh SlidePdfViewer; its Document starts to
\* load the file
NewViewer(url) ==
    [mounted |-> TRUE, pdfUrl |-> url, numPages |-> 0, currentPage |-> 1,
     rendered |-> 0, document |-> "loading", event |-> "mount", before |-> 1]

\* the page the viewer keeps when it is given another URL
KeepPage(prev) == prev

\* useEffect(() => { setCurrentPage(1) }, [pdfUrl])
ResetPage(prev) == 1

\* the viewer after App has rendered state a: unmounted, mounted anew, the
\* same instance given another URL (the effect of [pdfUrl] runs and Document
\* loads the new file; numPages stays), or the same instance as it was
ViewerAfter(a) ==
    IF ~ViewerShown(a) THEN NoViewer
    ELSE IF ~pdf.mounted THEN NewViewer(PdfUrlOf(a.selectedTrace))
    ELSE IF pdf.pdfUrl # PdfUrlOf(a.selectedTrace)
    THEN [pdf EXCEPT !.pdfUrl = PdfUrlOf(a.selectedTrace),
                     !.currentPage = ResetPage(@),
                     !.document = "loading",
                     !.event = "url",
                     !.before = pdf.currentPage]
    ELSE pdf

\* App's step to state a, with the render that follows it
AppStep(a) ==
    /\ pdfApp' = a
    /\ pdf' = ViewerAfter(a)
    /\ UNCHANGED << annotationVars, chat >>

\* fetchTraces resolves with the trace list: setTraces, setSelectedTrace of
\* the first trace, setLoading(false); error is left as it is
PdfFetchTracesOk ==
    /\ pdfApp.loading
    /\ AppStep([pdfApp EXCEPT !.loading = FALSE, !.selectedTrace = PdfTraces[1]])

\* fetchTraces fails: setError, setLoading(false)
PdfFetchTracesFail ==
    /\ pdfApp.loading
    /\ AppStep([pdfApp EXCEPT !.loading = FALSE, !.error = TRUE])

\* the Refresh button of the main view, or Retry of the error view:
\* fetchTraces sets loading
PdfRefresh ==
    /\ ~pdfApp.loading
    /\ AppStep([pdfApp EXCEPT !.loading = TRUE])

\* onClick={() => setSelectedTrace(trace)} of a list item
PdfSelectTrace(t) ==
    /\ ~pdfApp.loading /\ ~pdfApp.error
    /\ t # pdfApp.selectedTrace
    /\ AppStep([pdfApp EXCEPT !.selectedTrace = t])

\* Document's onLoadSuccess={(doc) => setNumPages(doc.numPages)} for the file
\* it was last given
DocumentLoadSuccess ==
    /\ pdf.mounted
    /\ pdf.document = "loading"
    /\ pdf' = [pdf EXCEPT !.numPages = PdfTrace[TraceOfUrl(pdf.pdfUrl)].numPages,
                          !.document = "loaded",
                          !.event = "load",
                          !.before = pdf.currentPage]
    /\ UNCHANGED << annotationVars, pdfApp, chat >>

\* Document fails to load the file and shows its error element
DocumentLoadError ==
    /\ pdf.mounted
    /\ pdf.document = "loading"
    /\ pdf' = [pdf EXCEPT !.document = "failed", !.event = "load",
                          !.before = pdf.currentPage]
    /\ UNCHANGED << annotationVars, pdfApp, chat >>

\* the render after setNumPages, and the keydown effect of [numPages]: the
\* buttons and the key listener now hold the new numPages
PdfRender ==
    /\ pdf.mounted
    /\ pdf.rendered # pdf.numPages
    /\ pdf' = [pdf EXCEPT !.rendered = pdf.numPages, !.event = "render",
                          !.before = pdf.currentPage]
    /\ UNCHANGED << annotationVars, pdfApp, chat >>

\* Math.min(a, b)
MathMin(a, b) == IF a <= b THEN a ELSE b

\* (prev) => Math.max(1, prev - 1)
PreviousPage(prev) == MathMax(1, prev - 1)

\* (prev) => Math.min(numPages, prev + 1), numPages that of the closure
NextPage(numPages, prev) == MathMin(numPages, prev + 1)

\* the Previous button, disabled={currentPage === 1}
PreviousClick ==
    /\ pdf.mounted
    /\ pdf.currentPage # 1
    /\ pdf' = [pdf EXCEPT !.currentPage = PreviousPage(@), !.event = "click",
                          !.before = pdf.currentPage]
    /\ UNCHANGED << annotationVars, pdfApp, chat >>

\* the Next button, disabled={currentPage === numPages}
NextClick ==
    /\ pdf.mounted
    /\ pdf.currentPage # pdf.rendered
    /\ pdf' = [pdf EXCEPT !.currentPage = NextPage(pdf.rendered, @),
                          !.event = "click",
                          !.before = pdf.currentPage]
    /\ UNCHANGED << annotationVars, pdfApp, chat >>

\* handleKeyDown of the window's keydown listener
HandleKeyDown(key) ==
    /\ pdf.mounted
    /\ pdf' = [pdf EXCEPT
                  !.currentPage =
                      IF key = "ArrowLeft" \/ key = "ArrowUp"
                      THEN PreviousPage(@)
                      ELSE IF key = "ArrowRight" \/ key = "ArrowDown"
                      THEN NextPage(pdf.rendered, @)
                      ELSE @,
                  !.event = "key",
                  !.before = pdf.currentPage]
    /\ UNCHANGED << annotationVars, pdfApp, chat >>

\* ----------------------------------------------------------- chat playground
\* input.trim() for the values of ChatInputs
Trim(v) == IF v = " " THEN "" ELSE v

\* the message the effect of [traceId, traceName] starts the conversation with
SystemMessage(t) ==
    [role |-> "system", content |-> << "Loaded trace: ", traceNameOf[t] >>, for |-> t]

\* userMessage of sendMessage; `for` records the trace it was sent for
UserMessage(t, v) == [role |-> "user", content |-> << v >>, for |-> t]

\* assistantMessage or errorMessage for request r
ReplyMessage(r, outcome) ==
    [role |-> "assistant",
     content |-> IF outcome = "ok"
                 THEN << "response to ", r.body.trace_id, r.body.message >>
                 ELSE << "Sorry, there was an error processing your message." >>,
     for |-> r.body.trace_id]

\* messages.filter((m) => m.role !== "system")
RECURSIVE WithoutSystem(_)
WithoutSystem(msgs) ==
    IF msgs = << >> THEN << >>
    ELSE IF Head(msgs).role # "system"
    THEN << Head(msgs) >> \o WithoutSystem(Tail(msgs))
    ELSE WithoutSystem(Tail(msgs))

\* the continuations of the requests in flight no longer reach an instance
Orphaned(inFlight) == {[r EXCEPT !.alive = FALSE] : r \in inFlight}

\* the playground is mounted for trace t: useState initial values, then the
\* effect of [traceId, traceName]
ChatOpen(t) ==
    /\ ~chat.mounted
    /\ chat' = [chat EXCEPT !.mounted = TRUE, !.traceId = t,
                            !.messages = << SystemMessage(t) >>,
                            !.input = "", !.loading = FALSE]
    /\ UNCHANGED << annotationVars, pdfVars >>

\* onBack: the playground is unmounted
ChatBack ==
    /\ chat.mounted
    /\ chat' = [NoChat EXCEPT !.requests = Orphaned(chat.requests), !.sent = chat.sent]
    /\ UNCHANGED << annotationVars, pdfVars >>

\* the mounted playground is given another traceId and traceName: the effect
\* of [traceId, traceName] runs again
ChatTraceChange(t) ==
    /\ chat.mounted
    /\ t # chat.traceId
    /\ chat' = [chat EXCEPT !.traceId = t, !.messages = << SystemMessage(t) >>]
    /\ UNCHANGED << annotationVars, pdfVars >>

\* onChange of the Input, disabled={loading}
ChatType(v) ==
    /\ chat.mounted
    /\ ~chat.loading
    /\ v # chat.input
    /\ chat' = [chat EXCEPT !.input = v]
    /\ UNCHANGED << annotationVars, pdfVars >>

\* sendMessage up to its await (the Send button or Enter)
SendMessage ==
    /\ chat.mounted
    /\ ~(Trim(chat.input) = "" \/ chat.loading)
    /\ chat.sent < MaxChat
    /\ chat' = [chat EXCEPT
                   !.messages = Append(@, UserMessage(chat.traceId, chat.input)),
                   !.input = "",
                   !.loading = TRUE,
                   !.sent = @ + 1,
                   !.requests = @ \cup
                       {[id |-> chat.sent + 1, alive |-> TRUE,
                         body |-> [trace_id |-> chat.traceId,
                                   message |-> chat.input,
                                   history |-> WithoutSystem(chat.messages)]]}]
    /\ UNCHANGED << annotationVars, pdfVars >>

\* the request r ends: sendMessage after its await, with try, catch and
\* finally; the setState calls reach the instance only if it is still mounted
ChatResolve(r, outcome) ==
    /\ r \in chat.requests
    /\ chat' = IF r.alive
               THEN [chat EXCEPT !.messages = Append(@, ReplyMessage(r, outcome)),
                                 !.loading = FALSE,
                                 !.requests = @ \ {r}]
               ELSE [chat EXCEPT !.requests = @ \ {r}]
    /\ UNCHANGED << annotationVars, pdfVars >>

\* -------------------------------------------------------------------- spec
Next ==
    \/ FetchTracesOk
    \/ FetchTracesFail
    \/ Refresh
    \/ Retry
    \/ \E i \in 1 .. Len(Traces) : SelectTrace(Traces[i])
    \/ Render
    \/ \E shapeId \in ShapeIds, newAttrs \in Patches : ShapeChange(shapeId, newAttrs)
    \/ Prev
    \/ NextSlide
    \/ \E index \in 0 .. 1 : Thumbnail(index)
    \/ \E shapeId \in ShapeIds : SelectShape(shapeId)
    \/ StageClick
    \/ SaveStart
    \/ \E r \in requests, outcome \in Outcomes : SaveResolve(r, outcome)

Spec == Init /\ [][Next]_vars

\* the request with this id ends, with any outcome
Answer(id) ==
    \E r \in requests, outcome \in Outcomes : r.id = id /\ SaveResolve(r, outcome)

\* App and editor without slide navigation and shape selection, which neither
\* read nor write saving, hasChanges or a request
NextSave ==
    \/ FetchTracesOk
    \/ FetchTracesFail
    \/ Refresh
    \/ Retry
    \/ \E i \in 1 .. Len(Traces) : SelectTrace(Traces[i])
    \/ Render
    \/ \E shapeId \in ShapeIds, newAttrs \in Patches : ShapeChange(shapeId, newAttrs)
    \/ SaveStart
    \/ \E r \in requests, outcome \in Outcomes : SaveResolve(r, outcome)

\* The persistence collaborator eventually answers or fails every request.
SpecLive ==
    /\ Init
    /\ [][NextSave]_vars
    /\ \A id \in 1 .. MaxSaves : WF_vars(Answer(id))

\* The editor with the pointer gestures and the text edit of the shape
\* components in place of direct calls of the handler. Saving, which neither
\* reads nor writes a Konva node, a textarea or a shape, is left to Spec.
Gesture ==
    \/ \E shapeId \in ShapeIds, pos \in DragPositions : DragStart(shapeId, pos)
    \/ \E pos \in DragPositions : DragMove(pos)
    \/ DragEnd
    \/ \E shapeId \in ShapeIds : TransformStart(shapeId)
    \/ \E sc \in ScaleFactors : Transform(sc)
    \/ TransformEnd
    \/ \E shapeId \in ShapeIds : DblClickOpen(shapeId)
    \/ DblClickFocus
    \/ \E v \in TextValues : Type(v)
    \/ Blur
    \/ Escape

NextUI ==
    \/ FetchTracesOk
    \/ FetchTracesFail
    \/ Refresh
    \/ Retry
    \/ \E i \in 1 .. Len(Traces) : SelectTrace(Traces[i])
    \/ Render
    \/ Prev
    \/ NextSlide
    \/ \E index \in 0 .. 1 : Thumbnail(index)
    \/ \E shapeId \in ShapeIds : SelectShape(shapeId)
    \/ StageClick
    \/ Gesture

SpecUI == Init /\ [][NextUI]_vars

\* the slide viewer (App of part_000 with SlidePdfViewer)
NextPdf ==
    \/ PdfFetchTracesOk
    \/ PdfFetchTracesFail
    \/ PdfRefresh
    \/ \E i \in 1 .. Len(PdfTraces) : PdfSelectTrace(PdfTraces[i])
    \/ DocumentLoadSuccess
    \/ DocumentLoadError
    \/ PdfRender
    \/ PreviousClick
    \/ NextClick
    \/ \E key \in Keys : HandleKeyDown(key)

SpecPdf == Init /\ [][NextPdf]_vars

\* the chat playground
NextChat ==
    \/ \E t \in ChatTraces : ChatOpen(t)
    \/ ChatBack
    \/ \E t \in ChatTraces : ChatTraceChange(t)
    \/ \E v \in ChatInputs : ChatType(v)
    \/ SendMessage
    \/ \E r \in chat.requests, outcome \in ChatOutcomes : ChatResolve(r, outcome)

SpecChat == Init /\ [][NextChat]_vars

\* ------------------------------------------------------------------ claims
\* the presentation the editor is showing and editing
LivePresentation == Deref(localPresentation)

\* C1: in every reachable state of the mounted editor, hasChanges is true if
\* and only if the live presentation differs from the presentation that was
\* last loaded or last successfully saved.
C1_HasChangesIffDiffers ==
    Mounted => (hasChanges <=> (LivePresentation # baseline[1]))

\* a save request that the mounted editor started and that has failed
FailedSaveStep ==
    \E r \in requests :
        /\ r.alive
        /\ SaveResolve(r, "http_error") \/ SaveResolve(r, "transport_error")

\* C2: a save whose request fails (non-success status or transport error)
\* leaves hasChanges true.
C2_FailedSaveKeepsHasChanges ==
    [][(hasChanges /\ FailedSaveStep) => hasChanges']_vars

\* C3: save is single-flight: at most one save request is in transit at any
\* time.
C3_SingleFlight == Cardinality(requests) <= 1

\* the save of the live presentation succeeds after a shape change made the
\* live presentation differ from the payload of that save
SavedWhileEdited ==
    \E r \in requests :
        /\ r.alive
        /\ r.pres = localPresentation
        /\ RequestBody(r).presentation # LivePresentation
        /\ SaveResolve(r, "ok")

\* C4: if a shape change applied while a save is in flight makes the live
\* presentation differ from the payload of the save, then hasChanges is true
\* after the save resolves successfully.
C4_EditDuringSaveStaysUnsaved ==
    [][SavedWhileEdited => hasChanges']_vars

\* C5: the payload of a save request is the presentation as it was when save
\* was invoked: a request that starts carries the live presentation of that
\* moment, and no later step (a shape change in particular) alters the
\* payload of a request in flight.
C5_PayloadIsSnapshot ==
    [][/\ \A n \in requests' :
            (\A r \in requests : r.id # n.id)
                => RequestBody(n)' = JSONstringify(LivePresentation)
       /\ \A r \in requests : \A n \in requests' :
            (n.id = r.id) => RequestBody(n)' = RequestBody(r)]_vars

\* a request is in flight for the live presentation, which a shape change
\* has altered since the request started
C5_Witness ==
    \E r \in requests :
        /\ r.alive
        /\ r.pres = localPresentation
        /\ patchResult = "applied"
        /\ RequestBody(r).presentation # LivePresentation

\* a presentation is given to the editor: the trace list arrives, or another
\* trace is selected
LoadStep ==
    /\ FetchTracesOk \/ \E i \in 1 .. Len(Traces) : SelectTrace(Traces[i])
    /\ Mounted'

\* C6: loading a presentation, from any prior state, leaves hasChanges false,
\* selectedShapeId null and currentSlideIndex 0.
C6_LoadResets ==
    [][LoadStep => /\ localPresentation' = selectedTrace'
                   /\ hasChanges' = FALSE
                   /\ selectedShapeId' = "null"
                   /\ currentSlideIndex' = 0]_vars

\* C7: the current slide index always designates a slide of the live
\* presentation.
C7_IndexInRange ==
    Mounted => /\ 0 <= currentSlideIndex
               /\ currentSlideIndex <= Len(LivePresentation.slides) - 1

\* C8: every change of currentSlideIndex leaves selectedShapeId null.
C8_SlideChangeClearsSelection ==
    [][(currentSlideIndex' # currentSlideIndex) => selectedShapeId' = "null"]_vars

\* the ids of the shapes of the slide the handler works on
IdsOnSlide ==
    IF view.slide < Len(view.slides)
    THEN {view.slides[view.slide + 1].shapes[k].id :
              k \in 1 .. Len(view.slides[view.slide + 1].shapes)}
    ELSE {}

\* C9: a shape change whose shapeId matches no shape of the current slide
\* leaves the whole presentation unchanged and does not set hasChanges.
C9_UnknownShapeIsNoOp ==
    [][\A shapeId \in ShapeIds, newAttrs \in Patches :
          (ShapeChange(shapeId, newAttrs) /\ shapeId \notin IdsOnSlide)
              => /\ store' = store
                 /\ localPresentation' = localPresentation
                 /\ hasChanges' = hasChanges]_vars

\* a shape change was just ignored
C9_Witness ==
    /\ patchResult = "ignored"
    /\ Mounted
    /\ ~hasChanges

\* C10: the attributes of every shape equal the left fold, in call order, of
\* the patches applied to it over its initial attributes, also when several
\* changes are made before the editor re-renders.
C10_LeftFold ==
    \A t \in Editable :
        \A i \in 1 .. Len(store[t]) :
            \A k \in 1 .. Len(store[t][i].shapes) :
                store[t][i].shapes[k] = folded[t][i].shapes[k]

\* two changes of the rectangle s2, a resize and then a drag, both made
\* before the editor re-rendered: the drag overrides x and y, the width and
\* height of the resize are kept
C10_Witness ==
    /\ Mounted
    /\ edits = 2
    /\ view.slides = Original[view.pres].slides
    /\ \E i \in 1 .. Len(store[localPresentation]) :
         \E k \in 1 .. Len(store[localPresentation][i].shapes) :
            LET shape == store[localPresentation][i].shapes[k]
            IN  /\ shape.x = 80 /\ shape.y = 120
                /\ shape.width = 20 /\ shape.height = 20

\* the places of the shapes of all presentations: trace, slide, shape
Places ==
    {<< t, i, k >> \in Editable \X (1 .. 2) \X (1 .. 2) :
        i <= Len(store[t]) /\ k <= Len(store[t][i].shapes)}

\* the place the handler of the last render finds the shape called shapeId at
PlaceOf(shapeId) ==
    << view.pres, view.slide + 1, FindIndex(SharedShapes(view), shapeId) + 1 >>

\* the slides are the same ones in the same order, with as many shapes each
SameSlides ==
    \A t \in Editable :
        /\ Len(store'[t]) = Len(store[t])
        /\ \A i \in 1 .. Len(store[t]) :
              /\ store'[t][i].id = store[t][i].id
              /\ store'[t][i].index = store[t][i].index
              /\ Len(store'[t][i].shapes) = Len(store[t][i].shapes)

\* the step changed no shape but the one at place pl, and of that one only
\* the attributes of newAttrs, which now have the patch's values
OnlyPatched(pl, newAttrs) ==
    /\ SameSlides
    /\ \A q \in Places :
          LET old == store[q[1]][q[2]].shapes[q[3]]
              new == store'[q[1]][q[2]].shapes[q[3]]
          IN  IF q = pl
              THEN /\ DOMAIN new = DOMAIN old
                   /\ new.id = old.id
                   /\ new.type = old.type
                   /\ \A a \in DOMAIN old :
                         new[a] = IF a \in DOMAIN newAttrs THEN newAttrs[a] ELSE old[a]
              ELSE new = old
    /\ LivePresentation'.width = LivePresentation.width
    /\ LivePresentation'.height = LivePresentation.height

\* C11: a shape change on a shape of the current slide alters only the
\* attributes named in the patch, on that shape: the shape keeps its id and its
\* kind, every other shape of the slide, every other slide, the slide order
\* and the presentation's width and height stay as they were.
C11_ShapeChangeFrame ==
    [][\A shapeId \in ShapeIds, newAttrs \in Patches :
          (ShapeChange(shapeId, newAttrs) /\ shapeId \in IdsOnSlide)
              => OnlyPatched(PlaceOf(shapeId), newAttrs)]_vars

\* a patch has just been applied on the two-shape slide of a two-slide
\* presentation and made one of its shapes differ from the loaded one
C11_Witness ==
    /\ Mounted /\ patchResult = "applied"
    /\ view.pres = "T1" /\ view.slide = 0
    /\ store["T1"][1].shapes # Original["T1"].slides[1].shapes
    /\ store["T1"][2] = Original["T1"].slides[2]

\* the shape at a place
ShapeAt(pl) == store[pl[1]][pl[2]].shapes[pl[3]]

\* the shape at a place after the step
NewShapeAt(pl) == store'[pl[1]][pl[2]].shapes[pl[3]]

\* the shape as the trace list delivered it
LoadedAt(pl) == Original[pl[1]].slides[pl[2]].shapes[pl[3]]

\* the shape the gesture in progress manipulates is still on its slide
GestureShapeFound == konva.id \in IdsOnSlide

\* C12: in every reachable state every shape of the live
\* presentation has width >= 20 and height >= 20; in particular the shape of
\* a committed drag or a committed resize has, after the commit.
C12_MinSizeAfterCommit ==
    [][((DragEnd \/ TransformEnd) /\ GestureShapeFound)
          => /\ NewShapeAt(PlaceOf(konva.id)).width >= MinSize
             /\ NewShapeAt(PlaceOf(konva.id)).height >= MinSize]_vars

\* new is old scaled by s percent, or the floor when that is below the floor
ScaledOrFloor(new, old, s) ==
    IF old * s < MinSize * 100 THEN new = MinSize ELSE new * 100 = old * s

\* C13: a committed resize with scale factors (scaleX, scaleY) sets the
\* shape's width to max(20, oldWidth * scaleX) and its height to
\* max(20, oldHeight * scaleY), leaves the node's scale at 1 for the next
\* resize, and takes x and y from the node; the size (200, 50) with both
\* factors 0.05 is committed as (20, 20).
C13_ResizeCommit ==
    [][(TransformEnd /\ GestureShapeFound)
          => LET old == ShapeAt(PlaceOf(konva.id))
                 new == NewShapeAt(PlaceOf(konva.id))
             IN  /\ ScaledOrFloor(new.width, old.width, konva.scaleX)
                 /\ ScaledOrFloor(new.height, old.height, konva.scaleY)
                 /\ new.x = konva.x /\ new.y = konva.y
                 /\ konva'.scaleX = 100 /\ konva'.scaleY = 100
                 /\ Baked(200, 5) = 20 /\ Baked(50, 5) = 20]_vars

\* a shape loaded as 100 x 100 has been resized twice by one half and is
\* 25 x 25: the second resize started from the committed 50 x 50
C13_Witness ==
    /\ Mounted /\ patchResult = "applied" /\ PointerFree /\ edits = 2
    /\ konva.scaleX = 100 /\ konva.scaleY = 100
    /\ \E pl \in Places :
          /\ LoadedAt(pl).width = 100 /\ LoadedAt(pl).height = 100
          /\ ShapeAt(pl).width = 25 /\ ShapeAt(pl).height = 25

\* a pointer move of a drag in progress
DragMoves ==
    \/ \E shapeId \in ShapeIds, pos \in DragPositions : DragStart(shapeId, pos)
    \/ \E pos \in DragPositions : DragMove(pos)

\* C14: a drag of a shape emits exactly one patch, at pointer-up, carrying the
\* position {x, y} the shape has then; no patch is emitted and the model is
\* not changed for an intermediate position during the drag.
C14_DragCommitsOnce ==
    [][/\ DragMoves => /\ edits' = edits
                       /\ store' = store
                       /\ localPresentation' = localPresentation
                       /\ hasChanges' = hasChanges
       /\ (DragEnd /\ GestureShapeFound)
             => /\ edits' = edits + 1
                /\ OnlyPatched(PlaceOf(konva.id), [x |-> konva.x, y |-> konva.y])]_vars

\* the one patch of a drag from (50, 50) to (80, 120) has just been applied
C14_Witness ==
    /\ Mounted /\ patchResult = "applied" /\ PointerFree /\ edits = 1
    /\ \E pl \in Places :
          /\ LoadedAt(pl).x = 50 /\ LoadedAt(pl).y = 50
          /\ ShapeAt(pl) = [LoadedAt(pl) EXCEPT !.x = 80, !.y = 120]

\* the place of the shape textarea s was opened on
PlaceOfSurface(s) ==
    << s.closure.pres, s.closure.slide + 1,
       FindIndex(SharedShapes(s.closure), s.shapeId) + 1 >>

\* textarea s loses the focus: to something that is not a textarea, or to the
\* textarea handleDblClick has just appended
EndedByBlur(s) ==
    \/ BlurSurface(s)
    \/ DblClickFocus /\ s.attached

\* C15: a text edit opened on a text shape and ended by a blur sets the text
\* of that shape to the content the surface has at the blur, by exactly one
\* text patch, sets hasChanges to true and destroys the surface.
C15_BlurCommitsText ==
    [][\A s \in surfaces :
          EndedByBlur(s)
              => /\ NewShapeAt(PlaceOfSurface(s)).text = s.value
                 /\ edits' = edits + 1
                 /\ hasChanges'
                 /\ Cardinality(surfaces') = Cardinality(surfaces) - 1]_vars

\* C16: at most one text-edit surface exists at any time; a text edit started
\* while a surface is open commits and destroys that surface before it creates
\* its own.
C16_OneSurface == Cardinality(surfaces) <= 1

\* the shapes of the displayed slide whose component gets isSelected = true
\* and so renders the Transformer
SelectedOnStage ==
    IF view.slide < Len(view.slides)
    THEN {k \in 1 .. Len(ShapesOnStage) : selectedShapeId = ShapesOnStage[k].id}
    ELSE {}

\* C17: at most one shape of the displayed slide is selected at any time;
\* selecting a shape makes it the only selected one, and a click on the empty
\* canvas leaves no shape selected.
C17_SingleSelection ==
    [][/\ Mounted' => Cardinality(SelectedOnStage') <= 1
       /\ \A shapeId \in ShapeIds :
             SelectShape(shapeId)
                 => SelectedOnStage' = {FindIndex(ShapesOnStage, shapeId) + 1}
       /\ StageClick => SelectedOnStage' = {}]_vars

\* on the slide with two shapes the second is the selected one
C17_Witness ==
    /\ Mounted /\ Rendered
    /\ Len(ShapesOnStage) = 2
    /\ SelectedOnStage = {2}

\* C18: unsaved edits do not persist across a change of source: when a
\* source is selected (again) and no save was ever made, the editor shows that
\* source's presentation as it was originally provided; the edits never
\* modified the data the trace list holds.
C18_SelectShowsOriginal ==
    [][\A i \in 1 .. Len(Traces) :
          (SelectTrace(Traces[i]) /\ sent = 0 /\ Mounted')
              => /\ LivePresentation' = Original[Traces[i]]
                 /\ \A t \in Editable : store'[t] = Original[t].slides]_vars

\* the request of a save ends without success
SaveFails ==
    \E r \in requests :
        SaveResolve(r, "http_error") \/ SaveResolve(r, "transport_error")

\* C19: every save whose request ends with a non-success status or with a
\* transport error is shown to the user as a failure notification.
C19_FailedSaveIsShown ==
    [][SaveFails => userSaw' = "alert"]_vars

\* the alert of a failed save is on screen, the editor still mounted with
\* the edit that was to be saved
C19_Witness ==
    /\ userSaw = "alert"
    /\ Mounted /\ sent >= 1 /\ requests = {}
    /\ LivePresentation # Original[localPresentation]

\* C20: no save request is started while hasChanges is false or while
\* another save is in flight (the Save button, the only way to start one, is
\* disabled in exactly those states).
C20_SaveOnlyDirtyAndIdle ==
    [][SaveStart => (hasChanges /\ requests = {})]_vars

\* the request with this id is in transit
InFlight(id) == \E r \in requests : r.id = id

\* C21: every save that starts eventually resolves, given that the
\* persistence collaborator eventually answers or fails, and the editor does
\* not stay in the saving state: saving is eventually false again, whether
\* the save succeeded or failed.
C21_SaveResolves ==
    /\ \A id \in 1 .. MaxSaves : InFlight(id) ~> ~InFlight(id)
    /\ saving ~> ~saving

\* a save has just ended in failure and the editor that started it, still
\* mounted, is out of the saving state
C21_Witness ==
    /\ Mounted /\ ~saving /\ requests = {} /\ sent = 1
    /\ userSaw = "alert" /\ ~hasChanges

BelowMinSize(shape, sc) ==
    \/ shape.width * sc.x < MinSize * 100
    \/ shape.height * sc.y < MinSize * 100

\* C23: during a resize a proposed box whose width or height is below 20
\* logical units is rejected and the last valid box is kept, at any display
\* scale.
C23_SmallBoxRejected ==
    [][\A sc \in ScaleFactors :
          (Transform(sc) /\ BelowMinSize(ShapeData(konva.id), sc))
              => konva' = konva]_vars

\* C24: Escape in the text-edit surface behaves like a blur: the content of
\* the surface is committed as the text of the shape (no revert to the text
\* the edit started from), the surface is destroyed, and the key press and the
\* blur it forces emit exactly one text patch together.
C24_EscapeCommits ==
    [][\A s \in surfaces :
          (Escape /\ s.attached /\ s \notin surfaces')
              => /\ NewShapeAt(PlaceOfSurface(s)).text = s.value
                 /\ patchResult' = "applied"
                 /\ edits' = edits + 1
                 /\ surfaces' = {}]_vars

\* the Stage of the last render: the editor is mounted and has a current slide
StageRendered == Mounted /\ view.pres # "none" /\ view.slide < Len(view.slides)

\* C25: the scale the canvas is rendered with equals displayWidth (900)
\* divided by the logical width of the presentation given to the editor, and
\* the display height is its logical height times that scale; once a
\* presentation of another width is given, the canvas is not rendered with the
\* scale of the previous one.
C25_ScaleOfGivenPresentation ==
    StageRendered
        => /\ view.scale * Original[selectedTrace].width = containerWidth * 10000
           /\ view.displayHeight = Original[selectedTrace].height * view.scale

\* C26: in the PDF slide viewer, whenever the PDF URL changes (another
\* presentation is selected) the current page is reset to 1.
C26_UrlChangeResetsPage ==
    [][(pdf'.mounted /\ pdf'.pdfUrl # pdf.pdfUrl) => pdf'.currentPage = 1]_vars

\* the viewer showed page 3 of one presentation, was given the URL of
\* another and shows page 1
C26_Witness ==
    /\ pdf.mounted
    /\ pdf.event = "url"
    /\ pdf.before = 3
    /\ pdf.currentPage = 1
    /\ pdf.pdfUrl = PdfUrlOf("P2")

\* C30: in the PDF slide viewer, after any sequence of Previous/Next clicks,
\* arrow keys, document loads and URL changes, currentPage >= 1, and
\* currentPage <= numPages once the selected document has loaded; clicks and
\* keys before the first load and while another document loads included.
C30_PageInRange ==
    pdf.mounted
        => /\ pdf.currentPage >= 1
           /\ pdf.document = "loaded" => pdf.currentPage <= pdf.numPages

\* C27: every save that resolves ends in exactly one of two visible outcomes:
\* a download of the returned artifact, after which hasChanges is false, or a
\* failure notification, after which hasChanges stays true; a response with a
\* success status but no success flag or no artifact is not a successful save
\* and does not clear hasChanges silently.
C27_DownloadOrAlert ==
    [][\A r \in requests : \A outcome \in Outcomes :
          (r.alive /\ SaveResolve(r, outcome))
              => /\ userSaw' \in {"download", "alert"}
                 /\ userSaw' = "download" => ~hasChanges'
                 /\ userSaw' = "alert" => hasChanges' = hasChanges
                 /\ outcome = "ok_no_artifact" => userSaw' = "alert"]_vars

\* a save started for a presentation other than the live one resolves
SaveOfAnotherResolves ==
    \E r \in requests : \E outcome \in Outcomes :
        /\ r.pres # localPresentation
        /\ SaveResolve(r, outcome)

\* C28: the completion of a save affects only the presentation that was
\* saved: when a save started for presentation A resolves after another
\* presentation B was loaded and edited, hasChanges of B stays true.
C28_SaveOfAnotherKeepsHasChanges ==
    [][(Mounted /\ hasChanges /\ SaveOfAnotherResolves) => hasChanges']_vars

\* C29: a text-edit commit is applied to the presentation that is live at
\* the commit: when the live presentation is replaced (another trace
\* selected, or the trace list reloaded) while a surface is open, the later
\* blur does not make the previously live presentation the live one again,
\* and no surface is left behind by its editor without being destroyed.
C29_CommitToLive ==
    [][/\ \A s \in surfaces :
             EndedByBlur(s)
                 => /\ s.owner = "mounted"
                    /\ s.closure.pres = localPresentation
                    /\ localPresentation' = localPresentation
       /\ \A s \in surfaces' : s.owner = "mounted"]_vars

\* C31: in the chat playground, after the trace changes the conversation
\* holds only the system message of the new trace and messages exchanged for
\* it: the reply (or error message) to a request that was sent for the
\* previous trace and is still in flight is never appended to it.
C31_ConversationOfTrace ==
    chat.mounted
        => /\ chat.messages[1] = SystemMessage(chat.traceId)
           /\ \A k \in 1 .. Len(chat.messages) : chat.messages[k].for = chat.traceId
====
